---- MODULE Spec2Model ----
(***************************************************************************)
(* Model of app.py (Building-Analysis-Tool): the entity counter and        *)
(* comparator, the attribute flattener and the window geometry functions.  *)
(*                                                                         *)
(* Streamlit re-runs the script from the top on every interaction, so the  *)
(* locals of one run never survive into the next.  A state of the model    *)
(* holds the arguments and the results of the function that ran last; the  *)
(* variables of every other function are Idle.                             *)
(*                                                                         *)
(* Python values that may be None are modelled as sets: None is {} and a   *)
(* value v is {v}.                                                         *)
(***************************************************************************)
EXTENDS Integers, Sequences, FiniteSets, TLC

VARIABLES
    call,               \* the function that ran last
    ifc_file1,          \* ifc_file.by_type('IfcProduct') of the (first) model
    ifc_file2,          \* the same for the second model of a comparison
    component_count,    \* count_building_components(ifc_file1)
    comparison_result,  \* compare_ifc_files(ifc_file1, ifc_file2)
    objects,            \* file.by_type(class_type) handed to the flattener
    objects_data,       \* first result of get_objects_data_by_class
    pset_attributes,    \* second result of get_objects_data_by_class
    pandas_data,        \* the rows display_detailed_object_data builds
    object_data,        \* argument of get_attribute_value
    attribute,          \* argument of get_attribute_value
    value,              \* result of get_attribute_value
    window,             \* argument of the window geometry functions
    area,               \* result of calculate_glass_area
    orientation_data,   \* result of get_window_orientation
    windows,            \* ifc_file.by_type('IfcWindow') of extract_window_data
    windows_df,         \* the records extract_window_data returns
    total_area,         \* the total display_window_data writes, if it writes one
    uploads,            \* what the user and the file gave to a page's run
    steps,              \* the steps a page's run executed, in order
    tmp_files,          \* the temporary files of the run that still exist
    exception           \* the exception that ended the run or the batch

compareVars == <<ifc_file1, ifc_file2, component_count, comparison_result>>
flattenVars == <<objects, objects_data, pset_attributes, pandas_data,
                 object_data, attribute, value>>
windowVars == <<window, area, orientation_data>>
batchVars == <<windows, windows_df, total_area>>
runVars == <<uploads, steps, tmp_files, exception>>
vars == <<call, compareVars, flattenVars, windowVars, batchVars, runVars>>

Idle == "Idle"
None == {}
Some(v) == {v}
Val(x) == CHOOSE v \in x : TRUE

\* dict.get(key, default)
Get(d, k, default) == IF k \in DOMAIN d THEN d[k] ELSE default

\* sequences over S of length 0..n
SeqUpTo(S, n) == UNION {[1..k -> S] : k \in 0..n}

RECURSIVE SumOver(_, _)
SumOver(f, keys) ==
    IF keys = {} THEN 0
    ELSE LET k == CHOOSE x \in keys : TRUE
         IN  f[k] + SumOver(f, keys \ {k})

-----------------------------------------------------------------------------
(* Entity counter and comparator                                           *)

MaxProducts == 3

ProductTypes == {"IfcWall", "IfcWindow", "IfcDoor"}

\* an entity of which is_a() raises
Malformed == "Malformed"

\* the lists by_type('IfcProduct') may return
ProductLists == SeqUpTo(ProductTypes \cup {Malformed}, MaxProducts)

\* defaultdict(int): component_count[k] += 1
Increment(d, k) ==
    IF k \in DOMAIN d THEN [d EXCEPT ![k] = @ + 1] ELSE d @@ (k :> 1)

\* the for loop of count_building_components from position i on; the try
\* encloses the whole loop, so an exception raised by is_a() ends it and
\* what was counted so far is returned
RECURSIVE count_loop(_, _, _)
count_loop(products, i, counted) ==
    IF i > Len(products) THEN counted
    ELSE IF products[i] = Malformed THEN counted
    ELSE count_loop(products, i + 1, Increment(counted, products[i]))

count_building_components(ifc_file) == count_loop(ifc_file, 1, <<>>)

compare_ifc_files_swapped(file1, file2) ==
    LET components1 == count_building_components(file1)
        components2 == count_building_components(file2)
        all_component_types == DOMAIN components1 \cup DOMAIN components2
    IN  [component_type \in all_component_types |->
            LET count1 == Get(components1, component_type, 0)
                count2 == Get(components2, component_type, 0)
            IN  ("File 1 Count" :> count1) @@ ("File 2 Count" :> count2)
                @@ ("Difference" :> count2 - count1)]

compare_ifc_files(file1, file2) ==
    LET components1 == count_building_components(file1)
        components2 == count_building_components(file2)
        all_component_types == DOMAIN components1 \cup DOMAIN components2
    IN  [component_type \in all_component_types |->
            LET count1 == Get(components1, component_type, 0)
                count2 == Get(components2, component_type, 0)
            IN  ("File 1 Count" :> count1) @@ ("File 2 Count" :> count2)
                @@ ("Difference" :> count1 - count2)]

Init ==
    /\ call = Idle
    /\ ifc_file1 = Idle /\ ifc_file2 = Idle
    /\ component_count = Idle /\ comparison_result = Idle
    /\ objects = Idle /\ objects_data = Idle /\ pset_attributes = Idle
    /\ pandas_data = Idle
    /\ object_data = Idle /\ attribute = Idle /\ value = Idle
    /\ window = Idle /\ area = Idle /\ orientation_data = Idle
    /\ windows = Idle /\ windows_df = Idle /\ total_area = Idle
    /\ uploads = Idle /\ steps = Idle /\ tmp_files = Idle /\ exception = Idle

\* a run that counts the components of one model (ifc_file_analysis)
CountBuildingComponents ==
    /\ call = Idle
    /\ \E f \in ProductLists :
        /\ call' = "count_building_components"
        /\ ifc_file1' = f
        /\ ifc_file2' = Idle
        /\ component_count' = count_building_components(f)
        /\ comparison_result' = Idle
    /\ UNCHANGED <<flattenVars, windowVars, batchVars, runVars>>

\* a run that compares two models (compare_ifc_files_ui)
CompareIfcFiles ==
    /\ call = Idle
    /\ \E f1 \in ProductLists, f2 \in ProductLists :
        /\ call' = "compare_ifc_files"
        /\ ifc_file1' = f1
        /\ ifc_file2' = f2
        /\ component_count' = count_building_components(f1)
        /\ comparison_result' = compare_ifc_files(f1, f2)
    /\ UNCHANGED <<flattenVars, windowVars, batchVars, runVars>>

\* the script run ends: its locals are gone before the next interaction
EndRun ==
    /\ call # Idle
    /\ call' = Idle
    /\ ifc_file1' = Idle /\ ifc_file2' = Idle
    /\ component_count' = Idle /\ comparison_result' = Idle
    /\ objects' = Idle /\ objects_data' = Idle /\ pset_attributes' = Idle
    /\ pandas_data' = Idle
    /\ object_data' = Idle /\ attribute' = Idle /\ value' = Idle
    /\ window' = Idle /\ area' = Idle /\ orientation_data' = Idle
    /\ windows' = Idle /\ windows_df' = Idle /\ total_area' = Idle
    /\ uploads' = Idle /\ steps' = Idle /\ tmp_files' = Idle /\ exception' = Idle

NextCompare == CountBuildingComponents \/ CompareIfcFiles \/ EndRun

SpecCompare == Init /\ [][NextCompare]_vars

\* what an element-by-element count of the well-typed elements gives
TypeCount(products, t) == Cardinality({i \in DOMAIN products : products[i] = t})

\* C1: the comparison record is keyed by exactly the type names counted in
\* either model, and for each key holds the first count (0 if absent), the
\* second count (0 if absent) and their signed difference first - second.
C1_CompareIsKeyedUnionDifference ==
    call = "compare_ifc_files" =>
        LET countA == count_building_components(ifc_file1)
            countB == count_building_components(ifc_file2)
        IN  /\ DOMAIN comparison_result = DOMAIN countA \cup DOMAIN countB
            /\ \A k \in DOMAIN comparison_result :
                /\ DOMAIN comparison_result[k] =
                       {"File 1 Count", "File 2 Count", "Difference"}
                /\ comparison_result[k]["File 1 Count"] =
                       (IF k \in DOMAIN countA THEN countA[k] ELSE 0)
                /\ comparison_result[k]["File 2 Count"] =
                       (IF k \in DOMAIN countB THEN countB[k] ELSE 0)
                /\ comparison_result[k]["Difference"] =
                       comparison_result[k]["File 1 Count"]
                       - comparison_result[k]["File 2 Count"]

\* a comparison with a key absent from the first model, a key absent from the
\* second, and a key of difference zero
C1_Witness ==
    /\ call = "compare_ifc_files"
    /\ \E k \in DOMAIN comparison_result :
        comparison_result[k]["File 1 Count"] = 0
        /\ comparison_result[k]["Difference"] < 0
    /\ \E k \in DOMAIN comparison_result :
        comparison_result[k]["File 2 Count"] = 0
        /\ comparison_result[k]["Difference"] > 0
    /\ \E k \in DOMAIN comparison_result :
        comparison_result[k]["File 1 Count"] > 0
        /\ comparison_result[k]["Difference"] = 0

\* C2: the counts of count_building_components are non-negative integers and
\* sum to the number of elements of the counted category in the model (the
\* elements by_type('IfcProduct') returns that have a type).
C2_SumEqualsElementCount ==
    call = "count_building_components" =>
        /\ \A k \in DOMAIN component_count : component_count[k] \in Nat
        /\ SumOver(component_count, DOMAIN component_count) =
               Cardinality({i \in DOMAIN ifc_file1 : ifc_file1[i] \in ProductTypes})

\* C3: an element whose type cannot be obtained is skipped and the count goes
\* on: every well-typed element, before or after it, is counted.
C3_MalformedElementSkipped ==
    call = "count_building_components" =>
        \A t \in ProductTypes :
            Get(component_count, t, 0) = TypeCount(ifc_file1, t)

-----------------------------------------------------------------------------
(* Attribute flattener                                                     *)

MaxObjects == 2

\* A string is a sequence of tokens; the token "." is the separator and the
\* other tokens are separator-free pieces, so that f'{a}.{b}', '"." in s' and
\* s.split(".", 1) are computed on the text itself.
Dot == "."

GroupNames == {<<"Pset_A">>, <<"Pset_A", ".", "B">>}
PropNames == {<<"X">>, <<"B", ".", "X">>}

\* f'{pset_name}.{property_name}'
Join(pset_name, property_name) == pset_name \o <<Dot>> \o property_name

\* "." in attribute
HasDot(s) == \E i \in DOMAIN s : s[i] = Dot

\* attribute.split(".", 1)
SplitFirst(s) ==
    LET i == CHOOSE n \in DOMAIN s :
                 s[n] = Dot /\ \A m \in 1..(n - 1) : s[m] # Dot
    IN  <<SubSeq(s, 1, i - 1), SubSeq(s, i + 1, Len(s))>>

PropertyValues == {Some("text")}
QuantityValues == {Some("12.5")}

\* the dicts of one group: property name -> value
PropDicts(values) == UNION {[S -> values] : S \in SUBSET PropNames}
\* what Element.get_psets may return: group name -> dict
GroupMaps(values) == UNION {[S -> PropDicts(values)] : S \in SUBSET GroupNames}
\* the same with at most one group, which is not empty
SparseGroupMaps(values) ==
    {m \in GroupMaps(values) :
        /\ Cardinality(DOMAIN m) <= 1
        /\ \A g \in DOMAIN m : DOMAIN m[g] # {}}

\* an entity as the flattener reads it: its property and quantity groups
Elements == [psets : GroupMaps(PropertyValues), qtos : GroupMaps(QuantityValues)]
SparseElements ==
    [psets : SparseGroupMaps(PropertyValues), qtos : SparseGroupMaps(QuantityValues)]

\* obj.id() of the entity at a position of file.by_type(class_type)
ExpressIds == <<"#1", "#2", "#3", "#4", "#5">>

\* the dict get_objects_data_by_class appends for one entity
ObjectData(obj, position) ==
    [ExpressId |-> Some(ExpressIds[position]),
     GlobalId |-> Some("GlobalId"),
     Class |-> Some("IfcWindow"),
     PredefinedType |-> None,
     Name |-> Some("Name"),
     Level |-> Some(""),
     Type |-> Some(""),
     QuantitySets |-> obj.qtos,
     PropertySets |-> obj.psets]

\* the keys add_pset_attributes adds for one group map
add_pset_attributes(psets) ==
    {Join(pset_name, property_name) :
        <<pset_name, property_name>> \in
            {<<g, p>> \in GroupNames \X PropNames :
                g \in DOMAIN psets /\ p \in DOMAIN psets[g]}}

\* list(a_set): the order is arbitrary; one order is taken
RECURSIVE SetToSeq(_)
SetToSeq(S) ==
    IF S = {} THEN <<>>
    ELSE LET x == CHOOSE y \in S : TRUE IN <<x>> \o SetToSeq(S \ {x})

get_objects_data_by_class_psets_only(objs) ==
    <<[i \in DOMAIN objs |-> ObjectData(objs[i], i)],
      SetToSeq(UNION {add_pset_attributes(objs[i].psets) : i \in DOMAIN objs})>>

\* returns <<objects_data, list(pset_attributes)>>
get_objects_data_by_class(objs) ==
    <<[i \in DOMAIN objs |-> ObjectData(objs[i], i)],
      SetToSeq(UNION {add_pset_attributes(objs[i].psets)
                          \cup add_pset_attributes(objs[i].qtos) :
                      i \in DOMAIN objs})>>

get_attribute_value_quantities_first(data, attr) ==
    IF ~HasDot(attr)
    THEN (IF Len(attr) = 1 /\ attr[1] \in DOMAIN data THEN data[attr[1]] ELSE None)
    ELSE LET pset_name == SplitFirst(attr)[1]
             prop_name == SplitFirst(attr)[2]
         IN  IF pset_name \in DOMAIN data["QuantitySets"]
             THEN Get(data["QuantitySets"][pset_name], prop_name, None)
             ELSE IF pset_name \in DOMAIN data["PropertySets"]
             THEN Get(data["PropertySets"][pset_name], prop_name, None)
             ELSE None

get_attribute_value(data, attr) ==
    IF ~HasDot(attr)
    THEN (IF Len(attr) = 1 /\ attr[1] \in DOMAIN data THEN data[attr[1]] ELSE None)
    ELSE LET pset_name == SplitFirst(attr)[1]
             prop_name == SplitFirst(attr)[2]
         IN  IF pset_name \in DOMAIN data["PropertySets"]
             THEN Get(data["PropertySets"][pset_name], prop_name, None)
             ELSE IF pset_name \in DOMAIN data["QuantitySets"]
             THEN Get(data["QuantitySets"][pset_name], prop_name, None)
             ELSE None

\* the identity columns of display_detailed_object_data
IdentityColumns ==
    <<<<"ExpressId">>, <<"GlobalId">>, <<"Class">>, <<"PredefinedType">>,
      <<"Name">>, <<"Level">>, <<"Type">>>>

\* attributes = [identity columns] + pset_attributes
Attributes(keys) == IdentityColumns \o keys

\* the rows display_detailed_object_data builds, one tuple per object
BuildRows(data, keys) ==
    [i \in DOMAIN data |->
        [j \in DOMAIN Attributes(keys) |->
            get_attribute_value(data[i], Attributes(keys)[j])]]

\* the attributes a caller may ask of one object: the identity columns, a
\* field no object has, and every group.property text over the known names
\* and one unknown group and one unknown property
RequestedAttributes ==
    {IdentityColumns[i] : i \in DOMAIN IdentityColumns}
    \cup {<<"Volume">>}
    \cup {Join(g, p) : <<g, p>> \in (GroupNames \cup {<<"Pset_Z">>})
                                     \X (PropNames \cup {<<"Y">>})}

\* one object resolved for one attribute
GetAttributeValue ==
    /\ call = Idle
    /\ \E obj \in Elements, attr \in RequestedAttributes :
        /\ call' = "get_attribute_value"
        /\ object_data' = ObjectData(obj, 1)
        /\ attribute' = attr
        /\ value' = get_attribute_value(ObjectData(obj, 1), attr)
    /\ UNCHANGED <<objects, objects_data, pset_attributes, pandas_data>>
    /\ UNCHANGED <<compareVars, windowVars, batchVars, runVars>>

\* a run of display_detailed_object_data up to the table: discovery, then rows
DisplayDetailedObjectData ==
    /\ call = Idle
    /\ \E objs \in SeqUpTo(SparseElements, MaxObjects) :
        LET found == get_objects_data_by_class(objs)
        IN  /\ call' = "display_detailed_object_data"
            /\ objects' = objs
            /\ objects_data' = found[1]
            /\ pset_attributes' = found[2]
            /\ pandas_data' = BuildRows(found[1], found[2])
    /\ UNCHANGED <<object_data, attribute, value>>
    /\ UNCHANGED <<compareVars, windowVars, batchVars, runVars>>

NextFlatten == GetAttributeValue \/ DisplayDetailedObjectData \/ EndRun

SpecFlatten == Init /\ [][NextFlatten]_vars

\* the group and the property of a dotted attribute: the text before and after
\* its first separator
AttributeGroup(attr) == SplitFirst(attr)[1]
AttributeProperty(attr) == SplitFirst(attr)[2]
InMap(m, g, p) == g \in DOMAIN m /\ p \in DOMAIN m[g]

C5_FallsBackToQuantitySets ==
    (call = "get_attribute_value" /\ HasDot(attribute)) =>
        LET PS == object_data["PropertySets"]
            QS == object_data["QuantitySets"]
            G == AttributeGroup(attribute)
            P == AttributeProperty(attribute)
        IN  /\ (~InMap(PS, G, P) /\ InMap(QS, G, P)) => value = QS[G][P]
            /\ value = None => (~InMap(PS, G, P) /\ ~InMap(QS, G, P))

\* the keys discovery must emit for a batch
ExpectedKeys(objs) ==
    {Join(g, p) : <<g, p>> \in
        {<<g, p>> \in GroupNames \X PropNames :
            \E i \in DOMAIN objs : InMap(objs[i].psets, g, p)
                                   \/ InMap(objs[i].qtos, g, p)}}

\* C6: the discovered keys are exactly the group.property texts of all the
\* batch's property and quantity groups, each once; every row has the 7
\* identity columns and one column per key; a column whose key the row's
\* object does not hold is None.
C6_ColumnsAreBatchUnion ==
    call = "display_detailed_object_data" =>
        /\ {pset_attributes[j] : j \in DOMAIN pset_attributes} = ExpectedKeys(objects)
        /\ Len(pset_attributes) = Cardinality(ExpectedKeys(objects))
        /\ Len(pandas_data) = Len(objects)
        /\ \A i \in DOMAIN pandas_data :
            /\ Len(pandas_data[i]) = 7 + Len(pset_attributes)
            /\ \A j \in DOMAIN pset_attributes :
                pset_attributes[j] \notin ExpectedKeys(<<objects[i]>>)
                    => pandas_data[i][7 + j] = None

\* a batch of two objects, one with a property group and one with a quantity
\* group, each row with a None in the other's column
C6_Witness ==
    /\ call = "display_detailed_object_data"
    /\ Len(objects) = 2
    /\ Len(pset_attributes) >= 2
    /\ objects[1].qtos = <<>> /\ objects[1].psets # <<>>
    /\ objects[2].psets = <<>> /\ objects[2].qtos # <<>>
    /\ \E j \in DOMAIN pset_attributes :
        pandas_data[1][7 + j] # None /\ pandas_data[2][7 + j] = None
    /\ \E j \in DOMAIN pset_attributes :
        pandas_data[2][7 + j] # None /\ pandas_data[1][7 + j] = None

\* the values element obj holds under group g and property p, in either map
HeldValues(obj, g, p) ==
    (IF InMap(obj.psets, g, p) THEN {obj.psets[g][p]} ELSE {})
    \cup (IF InMap(obj.qtos, g, p) THEN {obj.qtos[g][p]} ELSE {})

\* C15: every key "G.P" that discovery emitted because element e holds a
\* value under group G and property P resolves, for e, to a value e holds
\* there; this for every group name, one containing "." and one present in
\* both maps included.
C15_DiscoveryResolutionRoundTrip ==
    call = "display_detailed_object_data" =>
        \A i \in DOMAIN objects :
            \A g \in GroupNames, p \in PropNames :
                HeldValues(objects[i], g, p) # {} =>
                    /\ \E j \in DOMAIN pset_attributes :
                           pset_attributes[j] = Join(g, p)
                    /\ get_attribute_value(objects_data[i], Join(g, p))
                           \in HeldValues(objects[i], g, p)

-----------------------------------------------------------------------------
(* Window geometry                                                         *)

\* hasattr(x, 'A') is false: NoAttr; otherwise Attr(value of x.A)
NoAttr == {}
Attr(v) == {v}

MaxNodes == 4

\* 'Glass' in layer.Name, for the layer names of the model: "Frame",
\* "Glazing" and "Window Glass"
ContainsGlass(name) == name \in {"Window Glass"}

\* item.SweptArea: a profile with no Area attribute, with Area unset, or with
\* an Area; item.OuterBoundary: a curve with or without an area attribute
Profile(a) == [Area |-> a]
Curve(a) == [area |-> a]
Item(layers, swept, outer) ==
    [LayerAssignments |-> layers, SweptArea |-> swept, OuterBoundary |-> outer]

\* the representation items of the model
Items ==
    {Item(Attr(<<"Frame", "Glazing">>), Attr(Profile(Attr(Some(5)))), NoAttr),
     Item(NoAttr, Attr(Profile(Attr(Some(6)))), NoAttr),
     Item(Attr(<<"Frame", "Window Glass">>), Attr(Profile(Attr(Some(2)))),
          Attr(Curve(Attr(Some(3))))),
     Item(Attr(<<"Window Glass">>), Attr(Profile(Attr(None))), NoAttr),
     Item(Attr(<<"Window Glass">>), Attr(Profile(NoAttr)),
          Attr(Curve(Attr(Some(4))))),
     Item(Attr(<<"Window Glass">>), NoAttr, Attr(Curve(NoAttr))),
     Item(Attr(<<"Window Glass">>), NoAttr, NoAttr)}

RepresentationTypes == {"SweptSolid", "Brep", "Curve2D"}

\* the representations of k nodes: one representation and k - 1 items
RepsOfSize(k) ==
    {[RepresentationType |-> t, Items |-> Attr(items)] :
        t \in RepresentationTypes, items \in [1..(k - 1) -> Items]}
    \cup (IF k = 1
          THEN {[RepresentationType |-> "SweptSolid", Items |-> NoAttr]}
          ELSE {})

\* the lists window.Representation.Representations of at most n nodes
RECURSIVE RepLists(_)
RepLists(n) ==
    {<<>>} \cup
    UNION {{<<r>> \o rest : r \in RepsOfSize(k), rest \in RepLists(n - k)} :
           k \in 1..n}

\* window.Representation: None or a product representation
WindowRepresentations ==
    {None} \cup {Some([Representations |-> reps]) : reps \in RepLists(MaxNodes)}

\* what a scan returns: nothing yet, a returned value, or an exception
Continue == [kind |-> "continue", value |-> None]
Return(v) == [kind |-> "return", value |-> v]
Raise == [kind |-> "raise", value |-> None]

\* the body run for a layer whose name contains 'Glass'
glass_layer(item) ==
    IF item.SweptArea # NoAttr /\ Val(item.SweptArea).Area # NoAttr
    THEN Return(Val(Val(item.SweptArea).Area))
    ELSE IF item.OuterBoundary # NoAttr
    THEN (IF Val(item.OuterBoundary).area # NoAttr
          THEN Return(Val(Val(item.OuterBoundary).area))
          ELSE Raise)
    ELSE Continue

\* for layer in item.LayerAssignments, from position i on
RECURSIVE scan_layers(_, _, _)
scan_layers(item, layers, i) ==
    IF i > Len(layers) THEN Continue
    ELSE LET r == IF ContainsGlass(layers[i]) THEN glass_layer(item) ELSE Continue
         IN  IF r = Continue THEN scan_layers(item, layers, i + 1) ELSE r

\* for item in rep.Items, from position i on
RECURSIVE scan_items(_, _)
scan_items(items, i) ==
    IF i > Len(items) THEN Continue
    ELSE LET r == IF items[i].LayerAssignments # NoAttr
                  THEN scan_layers(items[i], Val(items[i].LayerAssignments), 1)
                  ELSE Continue
         IN  IF r = Continue THEN scan_items(items, i + 1) ELSE r

\* for rep in window.Representation.Representations, from position i on
RECURSIVE scan_representations(_, _)
scan_representations(reps, i) ==
    IF i > Len(reps) THEN Continue
    ELSE LET r == IF reps[i].RepresentationType \in {"SweptSolid", "SurfaceModel", "Brep"}
                     /\ reps[i].Items # NoAttr
                  THEN scan_items(Val(reps[i].Items), 1)
                  ELSE Continue
         IN  IF r = Continue THEN scan_representations(reps, i + 1) ELSE r

\* the same scan, keeping the last item that returns instead of the first
RECURSIVE scan_representations_last(_, _)
scan_representations_last(reps, i) ==
    IF i < 1 THEN Continue
    ELSE LET r == IF reps[i].RepresentationType \in {"SweptSolid", "SurfaceModel", "Brep"}
                     /\ reps[i].Items # NoAttr
                  THEN scan_items(Val(reps[i].Items), 1)
                  ELSE Continue
         IN  IF r = Continue THEN scan_representations_last(reps, i - 1) ELSE r

calculate_glass_area_last_match(w) ==
    IF w.Representation # None
    THEN LET reps == Val(w.Representation).Representations
             r == scan_representations_last(reps, Len(reps))
         IN  IF r.kind = "return" THEN r.value ELSE Some(0)
    ELSE Some(0)

calculate_glass_area(w) ==
    IF w.Representation # None
    THEN LET r == scan_representations(Val(w.Representation).Representations, 1)
         IN  IF r.kind = "return" THEN r.value ELSE Some(0)
    ELSE Some(0)

CalculateGlassArea ==
    /\ call = Idle
    /\ \E rep \in WindowRepresentations :
        LET w == [Representation |-> rep, ObjectPlacement |-> None]
        IN  /\ call' = "calculate_glass_area"
            /\ window' = w
            /\ area' = calculate_glass_area(w)
            /\ orientation_data' = Idle
    /\ UNCHANGED <<compareVars, flattenVars, batchVars, runVars>>

\* the items of a window in scan order: those of the representations of a
\* scanned kind that have Items
RECURSIVE ScanOrder(_)
ScanOrder(reps) ==
    IF reps = <<>> THEN <<>>
    ELSE (IF Head(reps).RepresentationType \in {"SweptSolid", "SurfaceModel", "Brep"}
             /\ Head(reps).Items # NoAttr
          THEN Val(Head(reps).Items) ELSE <<>>)
         \o ScanOrder(Tail(reps))

Qualifies(item) ==
    /\ item.LayerAssignments # NoAttr
    /\ \E i \in DOMAIN Val(item.LayerAssignments) :
        ContainsGlass(Val(item.LayerAssignments)[i])
HasSweptArea(item) ==
    item.SweptArea # NoAttr /\ Val(item.SweptArea).Area # NoAttr
HasOuterArea(item) ==
    item.OuterBoundary # NoAttr /\ Val(item.OuterBoundary).area # NoAttr
WindowItems(w) ==
    IF w.Representation = None THEN <<>>
    ELSE ScanOrder(Val(w.Representation).Representations)

\* C7: first match: the first item in scan order with a 'Glass' layer decides;
\* its swept area is returned if it has one, else its outer-boundary area if
\* it has one; the result is always 0 or one single item's area, never a sum;
\* with no qualifying item the result is 0.
C7_FirstMatchPolicy ==
    call = "calculate_glass_area" =>
        LET its == WindowItems(window)
            Q == {i \in DOMAIN its : Qualifies(its[i])}
        IN  /\ Q = {} => area = Some(0)
            /\ Q # {} =>
                LET q == CHOOSE i \in Q : \A j \in Q : i <= j
                IN  /\ HasSweptArea(its[q]) => area = Val(Val(its[q].SweptArea).Area)
                    /\ (~HasSweptArea(its[q]) /\ HasOuterArea(its[q])) =>
                           area = Val(Val(its[q].OuterBoundary).area)
            /\ \/ area = Some(0)
               \/ \E i \in Q :
                    \/ HasSweptArea(its[i]) /\ area = Val(Val(its[i].SweptArea).Area)
                    \/ HasOuterArea(its[i]) /\ area = Val(Val(its[i].OuterBoundary).area)

\* a window with two qualifying items of different areas, the first one's
\* outer-boundary area returned
C7_Witness ==
    /\ call = "calculate_glass_area"
    /\ LET its == WindowItems(window)
       IN  /\ Len(its) >= 2
           /\ Qualifies(its[1]) /\ ~HasSweptArea(its[1]) /\ HasOuterArea(its[1])
           /\ Qualifies(its[2]) /\ HasSweptArea(its[2])
           /\ area = Some(4)

\* C8: a window with no representation gives exactly 0, and a window with a
\* representation gives a number that is not None and not negative.
C8_AreaIsNonNegativeNumber ==
    call = "calculate_glass_area" =>
        /\ window.Representation = None => area = Some(0)
        /\ area # None
        /\ area # None => Val(area) >= 0

\* A float is written whole + tiny * u.  For a direction ratio u is 2^-53
\* (1.1e-16: the size of the -1.22464679914735E-16 that exporters write for
\* sin(pi)); for an angle in degrees u is degrees(2^-53), 6.4e-15.  The
\* model's floats have whole = 0 or tiny = 0, but for a sum before rounding.
Float(w, t) == [whole |-> w, tiny |-> t]
Sign(x) ==
    IF x.whole > 0 THEN 1 ELSE IF x.whole < 0 THEN -1
    ELSE IF x.tiny > 0 THEN 1 ELSE IF x.tiny < 0 THEN -1 ELSE 0
IsTiny(x) == x.whole = 0 /\ x.tiny # 0

\* the direction ratios of the model: 1.0, -1.0, 0.0, 1.1e-16, -1.1e-16
Ratios == {Float(1, 0), Float(-1, 0), Float(0, 0), Float(0, 1), Float(0, -1)}

\* math.degrees(math.atan2(y, x)) for y, x in Ratios.  atan2 rounds an angle
\* that is 1.1e-16 rad away from pi/2 or pi to pi/2 or pi; the angle of
\* (1.0, +-1.1e-16) is +-6.4e-15 degrees.
Atan2Degrees(y, x) ==
    IF Sign(y) = 0 THEN (IF Sign(x) >= 0 THEN Float(0, 0) ELSE Float(180, 0))
    ELSE IF Sign(x) = 0 THEN Float(90 * Sign(y), 0)
    ELSE IF IsTiny(x) = IsTiny(y)
    THEN Float((IF Sign(x) > 0 THEN 45 ELSE 135) * Sign(y), 0)
    ELSE IF IsTiny(y)
    THEN (IF Sign(x) > 0 THEN Float(0, Sign(y)) ELSE Float(180 * Sign(y), 0))
    ELSE Float(90 * Sign(y), 0)

\* the double nearest to x: doubles from 256 to 512 are 5.7e-14 apart, which
\* is 8.9 u, so up to 4 u away from a whole number of degrees the nearest
\* double is that whole number; a float next to 0 is kept as it is
FloatRound(x) ==
    IF x.whole >= 256 /\ x.tiny >= -4 /\ x.tiny <= 4 THEN Float(x.whole, 0) ELSE x

\* x % 360 on Python floats for -360 < x < 360: fmod(x, 360) is x, and 360 is
\* added to a negative remainder, the sum being rounded to a double
FloatMod360(x) ==
    IF Sign(x) < 0 THEN FloatRound(Float(x.whole + 360, x.tiny)) ELSE x

\* x < 360 for a float
Below360(x) == x.whole < 360 \/ (x.whole = 360 /\ x.tiny < 0)

\* window.ObjectPlacement: None, a placement without RelativePlacement, one
\* without RefDirection, or one whose RefDirection has 2 or 3 ratios
Placement(ref) ==
    Some([RelativePlacement |-> Some([RefDirection |-> ref])])
Directions ==
    {<<dx, dy>> : dx \in Ratios, dy \in Ratios}
    \cup {<<dx, dy, Float(0, 0)>> : dx \in Ratios, dy \in Ratios}
ObjectPlacements ==
    {None, Some([RelativePlacement |-> None]), Placement(None)}
    \cup {Placement(Some([DirectionRatios |-> d])) : d \in Directions}

\* the label taken from the azimuth instead of the signs
OrientationOfAzimuth(az) ==
    IF az.whole < 45 \/ az.whole >= 315 THEN "East"
    ELSE IF az.whole < 135 THEN "North"
    ELSE IF az.whole < 225 THEN "West" ELSE "South"

get_window_orientation_by_azimuth(w) ==
    IF /\ w.ObjectPlacement # None
       /\ Val(w.ObjectPlacement).RelativePlacement # None
       /\ Val(Val(w.ObjectPlacement).RelativePlacement).RefDirection # None
    THEN LET direction ==
                 Val(Val(Val(w.ObjectPlacement).RelativePlacement).RefDirection)
                     .DirectionRatios
             azimuth == FloatMod360(Atan2Degrees(direction[2], direction[1]))
         IN  [Orientation |-> OrientationOfAzimuth(azimuth),
              Azimuth |-> Some(azimuth)]
    ELSE [Orientation |-> "Unknown", Azimuth |-> None]

\* direction[0] and direction[1] of the code are direction[1] and direction[2]
get_window_orientation(w) ==
    IF /\ w.ObjectPlacement # None
       /\ Val(w.ObjectPlacement).RelativePlacement # None
       /\ Val(Val(w.ObjectPlacement).RelativePlacement).RefDirection # None
    THEN LET direction ==
                 Val(Val(Val(w.ObjectPlacement).RelativePlacement).RefDirection)
                     .DirectionRatios
         IN  IF direction # <<>>
             THEN LET azimuth ==
                          FloatMod360(Atan2Degrees(direction[2], direction[1]))
                  IN  [Orientation |->
                           IF Sign(direction[1]) > 0 THEN "East"
                           ELSE IF Sign(direction[1]) < 0 THEN "West"
                           ELSE IF Sign(direction[2]) > 0 THEN "North"
                           ELSE "South",
                       Azimuth |-> Some(azimuth)]
             ELSE [Orientation |-> "Unknown", Azimuth |-> None]
    ELSE [Orientation |-> "Unknown", Azimuth |-> None]

GetWindowOrientation ==
    /\ call = Idle
    /\ \E placement \in ObjectPlacements :
        LET w == [Representation |-> None, ObjectPlacement |-> placement]
        IN  /\ call' = "get_window_orientation"
            /\ window' = w
            /\ area' = Idle
            /\ orientation_data' = get_window_orientation(w)
    /\ UNCHANGED <<compareVars, flattenVars, batchVars, runVars>>

NextWindow == CalculateGlassArea \/ GetWindowOrientation \/ EndRun

SpecWindow == Init /\ [][NextWindow]_vars

-----------------------------------------------------------------------------
(* Batches: the window table and its total                                 *)

MaxWindows == 3

\* a representation holding one item
OneItem(item) ==
    Some([Representations |->
              <<[RepresentationType |-> "SweptSolid", Items |-> Attr(<<item>>)]>>])

\* the windows of a batch: without geometry, with a glass area of 2 or of 4,
\* with an Area that is unset, with an outer boundary whose area raises; each
\* without placement or facing East
BatchWindows ==
    [Representation :
         {None,
          OneItem(Item(Attr(<<"Frame", "Window Glass">>),
                       Attr(Profile(Attr(Some(2)))), Attr(Curve(Attr(Some(3)))))),
          OneItem(Item(Attr(<<"Window Glass">>), Attr(Profile(NoAttr)),
                       Attr(Curve(Attr(Some(4)))))),
          OneItem(Item(Attr(<<"Window Glass">>), Attr(Profile(Attr(None))), NoAttr)),
          OneItem(Item(Attr(<<"Window Glass">>), NoAttr, Attr(Curve(NoAttr))))},
     ObjectPlacement :
         {None,
          Placement(Some([DirectionRatios |-> <<Float(1, 0), Float(0, 0)>>]))}]

\* the records extract_window_data collects, one per window of the file; the
\* GlobalId of a window is written as its position in the file
extract_window_data(ws) ==
    [i \in DOMAIN ws |->
        LET orientation == get_window_orientation(ws[i])
        IN  [GlobalId |-> Some(i),
             Name |-> Some("Window"),
             Area |-> calculate_glass_area(ws[i]),
             Orientation |-> orientation.Orientation,
             Azimuth |-> orientation.Azimuth]]

\* windows_df['Area'].sum(): pandas adds the numbers of the column and skips
\* the missing values
RECURSIVE AreaColumnSum(_, _)
AreaColumnSum(df, i) ==
    IF i > Len(df) THEN 0
    ELSE (IF df[i].Area = None THEN 0 ELSE Val(df[i].Area))
         + AreaColumnSum(df, i + 1)

\* the total written for the last window only
display_window_data_last_area(ws) ==
    LET df == extract_window_data(ws)
    IN  IF df # <<>>
        THEN (IF df[Len(df)].Area = None THEN Some(0) ELSE df[Len(df)].Area)
        ELSE None

\* what display_window_data writes as "Total Window Area": the column sum,
\* or nothing ("No windows found") for an empty table
display_window_data(ws) ==
    LET df == extract_window_data(ws)
    IN  IF df # <<>>
        THEN Some(AreaColumnSum(df, 1))
        ELSE None

\* the window table of one model
DisplayWindowData ==
    /\ call = Idle
    /\ \E ws \in SeqUpTo(BatchWindows, MaxWindows) :
        /\ call' = "display_window_data"
        /\ windows' = ws
        /\ windows_df' = extract_window_data(ws)
        /\ total_area' = display_window_data(ws)
    /\ UNCHANGED <<compareVars, flattenVars, windowVars, runVars>>

\* the entities of a class as the flattener meets them: one without any
\* group, one with a property, one with a quantity; for a malformed entity a
\* call of the loop body (Element.get_psets, obj.id(), ...) raises
BatchElements ==
    [element : {[psets |-> <<>>, qtos |-> <<>>],
                [psets |-> (<<"Pset_A">> :> (<<"X">> :> Some("text"))), qtos |-> <<>>],
                [psets |-> <<>>, qtos |-> (<<"Pset_A">> :> (<<"X">> :> Some("12.5")))]},
     raises : BOOLEAN]

\* get_objects_data_by_class as display_detailed_object_data calls it: the
\* loop has no handler of its own, so what an entity raises leaves the
\* function and is caught by the handler around the whole page
try_get_objects_data_by_class(objs) ==
    IF \E i \in DOMAIN objs : objs[i].raises
    THEN Raise
    ELSE Return(get_objects_data_by_class([i \in DOMAIN objs |-> objs[i].element]))

\* the object table of one class: discovery, then the rows, or the error
GetObjectsDataByClass ==
    /\ call = Idle
    /\ \E objs \in SeqUpTo(BatchElements, MaxObjects) :
        LET found == try_get_objects_data_by_class(objs)
                data == IF found.kind = "return" THEN found.value[1] ELSE <<>>
                keys == IF found.kind = "return" THEN found.value[2] ELSE <<>>
        IN  /\ call' = "get_objects_data_by_class"
            /\ objects' = objs
            /\ objects_data' = data
            /\ pset_attributes' = keys
            /\ pandas_data' = BuildRows(data, keys)
            /\ exception' = IF found.kind = "return" THEN None
                                                      ELSE Some("Exception")
    /\ UNCHANGED <<object_data, attribute, value>>
    /\ UNCHANGED <<compareVars, windowVars, batchVars, uploads, steps, tmp_files>>

NextBatch == DisplayWindowData \/ GetObjectsDataByClass \/ EndRun

SpecBatch == Init /\ [][NextBatch]_vars

\* the Area of one record as a number, a missing value adding nothing
AreaField(record) == IF record.Area = None THEN 0 ELSE Val(record.Area)

-----------------------------------------------------------------------------
(* Page runs: upload, open, analysis, cleanup                              *)

MaxRunProducts == 1
MaxProjects == 2

\* a step a run executed: the call and the uploader (1, 2) whose file it
\* works on, 0 for a step on both files of a comparison
Step(name, k) == <<name, k>>

\* tmp_file.name of the temporary file written for uploader k
TmpPath(k) == <<"tmp", k>>

\* the files a user may give to the model pages: one ifcopenshell cannot
\* parse, or a model with some IfcProject entities and some products
ModelFiles ==
    {[parses |-> FALSE, projects |-> 0, products |-> <<>>]}
    \cup [parses : {TRUE}, projects : 0..MaxProjects,
          products : SeqUpTo(ProductTypes \cup {Malformed}, MaxRunProducts)]

\* the files a user may give to the object page: the entities of the class
\* the user selects
DetailFiles ==
    {[parses |-> FALSE, objects |-> <<>>]}
    \cup [parses : {TRUE}, objects : SeqUpTo(BatchElements, MaxObjects)]

\* st.file_uploader: nothing yet, or a file
Uploads(files) == {None} \cup {Some(f) : f \in files}

\* handle_file_upload: the path of the temporary copy, or None
handle_file_upload(upload, k) ==
    IF upload # None
    THEN [file_path |-> Some(TmpPath(k)),
          steps |-> <<Step("st.file_uploader", k), Step("NamedTemporaryFile", k)>>]
    ELSE [file_path |-> None, steps |-> <<Step("st.file_uploader", k)>>]

\* the open that hands the file on although it could not be parsed
process_ifc_file_unchecked(upload, k) ==
    [ifc_file |-> upload, steps |-> <<Step("ifcopenshell.open", k)>>]

\* process_ifc_file: the model, or None after the error was logged and shown
process_ifc_file(upload, k) ==
    IF Val(upload).parses
    THEN [ifc_file |-> upload, steps |-> <<Step("ifcopenshell.open", k)>>]
    ELSE [ifc_file |-> None,
          steps |-> <<Step("ifcopenshell.open", k), Step("logging.error", k),
                      Step("st.error", k)>>]

\* display_metadata: writes the fields of project[0] if there is a project
display_metadata(ifc_file, k) ==
    <<Step("display_metadata", k)>>
    \o (IF ifc_file.projects > 0 THEN <<Step("st.write project[0]", k)>> ELSE <<>>)

\* how a run ended: its steps and the exception that ended it, if any
Run(executed, raised) == [steps |-> executed, exception |-> raised]

\* step s is one of the executed steps
StepIn(executed, s) == \E i \in DOMAIN executed : executed[i] = s

\* the temporary files written and not removed by the steps
RemainingFiles(executed) ==
    {TmpPath(k) : k \in
        {k \in 1..2 : /\ StepIn(executed, Step("NamedTemporaryFile", k))
                      /\ ~StepIn(executed, Step("os.remove", k))}}

\* the page "Analyze IFC File"
ifc_file_analysis(upload, button) ==
    LET uploaded == handle_file_upload(upload, 1)
    IN  IF uploaded.file_path = None THEN Run(uploaded.steps, None)
        ELSE
        LET opened == process_ifc_file(upload, 1)
            ifc_file == opened.ifc_file
        IN  IF ifc_file = None
            THEN Run(uploaded.steps \o opened.steps \o <<Step("os.remove", 1)>>, None)
            ELSE
            LET analysed ==
                    uploaded.steps \o opened.steps
                    \o display_metadata(Val(ifc_file), 1)
                    \o <<Step("count_building_components", 1),
                         Step("visualize_component_count", 1),
                         Step("detailed_analysis_ui", 1)>>
            IN  IF Val(ifc_file).projects = 0
                THEN Run(analysed, Some("IndexError"))
                ELSE Run(analysed
                         \o <<Step("ifc_metadata project[0]", 1),
                              Step("st.button Export", 1)>>
                         \o (IF button THEN <<Step("export_analysis_to_pdf", 1)>>
                                       ELSE <<>>)
                         \o <<Step("os.remove", 1)>>,
                         None)

\* the page "Compare IFC Files"; the export button exists only with a chart,
\* and a chart only if the comparison has a component type
compare_ifc_files_ui(upload1, upload2, button) ==
    LET uploaded1 == handle_file_upload(upload1, 1)
        uploaded2 == handle_file_upload(upload2, 2)
        asked == uploaded1.steps \o uploaded2.steps
    IN  IF uploaded1.file_path = None \/ uploaded2.file_path = None
        THEN Run(asked, None)
        ELSE
        LET opened1 == process_ifc_file(upload1, 1)
            opened2 == process_ifc_file(upload2, 2)
            opened == asked \o opened1.steps \o opened2.steps
            removed == <<Step("os.remove", 1), Step("os.remove", 2)>>
        IN  IF opened1.ifc_file = None \/ opened2.ifc_file = None
            THEN Run(opened \o removed, None)
            ELSE
            LET result == compare_ifc_files(Val(opened1.ifc_file).products,
                                            Val(opened2.ifc_file).products)
            IN  Run(opened \o <<Step("compare_ifc_files", 0)>>
                    \o (IF DOMAIN result # {}
                        THEN <<Step("st.plotly_chart", 0), Step("st.button Export", 0)>>
                             \o (IF button THEN <<Step("export_analysis_to_pdf", 0)>>
                                           ELSE <<>>)
                        ELSE <<>>)
                    \o removed,
                    None)

\* the page "Detailed Object Data": every exception is caught by the handler
\* around the page, which logs and shows it
display_detailed_object_data(upload) ==
    LET uploaded == handle_file_upload(upload, 1)
    IN  IF uploaded.file_path = None THEN Run(uploaded.steps, None)
        ELSE
        LET opened == process_ifc_file(upload, 1)
            ifc_file == opened.ifc_file
        IN  IF ifc_file = None
            THEN Run(uploaded.steps \o opened.steps, None)
            ELSE
            LET found == try_get_objects_data_by_class(Val(ifc_file).objects)
                flattened == uploaded.steps \o opened.steps
                             \o <<Step("get_objects_data_by_class", 1)>>
            IN  IF found.kind = "raise"
                THEN Run(flattened \o <<Step("except Exception", 1)>>,
                         Some("Exception"))
                ELSE Run(flattened
                         \o <<Step("st.write dataframe", 1),
                              Step("st.download_button", 1),
                              Step("display_window_data", 1),
                              Step("os.remove", 1)>>,
                         None)

AnalyzeIfcFile ==
    /\ call = Idle
    /\ \E upload \in Uploads(ModelFiles), button \in BOOLEAN :
        LET run == ifc_file_analysis(upload, button)
        IN  /\ call' = "Analyze IFC File"
            /\ uploads' = [files |-> <<upload>>, button |-> button]
            /\ steps' = run.steps
            /\ tmp_files' = RemainingFiles(run.steps)
            /\ exception' = run.exception
            /\ component_count' =
                   IF StepIn(run.steps, Step("count_building_components", 1))
                   THEN count_building_components(Val(upload).products)
                   ELSE Idle
    /\ UNCHANGED <<ifc_file1, ifc_file2, comparison_result>>
    /\ UNCHANGED <<flattenVars, windowVars, batchVars>>

CompareIfcFilesUi ==
    /\ call = Idle
    /\ \E upload1 \in Uploads(ModelFiles), upload2 \in Uploads(ModelFiles),
          button \in BOOLEAN :
        LET run == compare_ifc_files_ui(upload1, upload2, button)
        IN  /\ call' = "Compare IFC Files"
            /\ uploads' = [files |-> <<upload1, upload2>>, button |-> button]
            /\ steps' = run.steps
            /\ tmp_files' = RemainingFiles(run.steps)
            /\ exception' = run.exception
            /\ comparison_result' =
                   IF StepIn(run.steps, Step("compare_ifc_files", 0))
                   THEN compare_ifc_files(Val(upload1).products, Val(upload2).products)
                   ELSE Idle
    /\ UNCHANGED <<ifc_file1, ifc_file2, component_count>>
    /\ UNCHANGED <<flattenVars, windowVars, batchVars>>

DetailedObjectData ==
    /\ call = Idle
    /\ \E upload \in Uploads(DetailFiles) :
        LET run == display_detailed_object_data(upload)
        IN  /\ call' = "Detailed Object Data"
            /\ uploads' = [files |-> <<upload>>, button |-> FALSE]
            /\ steps' = run.steps
            /\ tmp_files' = RemainingFiles(run.steps)
            /\ exception' = run.exception
            /\ pandas_data' =
                   IF StepIn(run.steps, Step("st.write dataframe", 1))
                   THEN LET found == get_objects_data_by_class(
                                         [i \in DOMAIN Val(upload).objects |->
                                             Val(upload).objects[i].element])
                        IN  BuildRows(found[1], found[2])
                   ELSE Idle
    /\ UNCHANGED <<objects, objects_data, pset_attributes>>
    /\ UNCHANGED <<object_data, attribute, value>>
    /\ UNCHANGED <<compareVars, windowVars, batchVars>>

NextRun == AnalyzeIfcFile \/ CompareIfcFilesUi \/ DetailedObjectData \/ EndRun

SpecRun == Init /\ [][NextRun]_vars

\* the pages whose run is recorded in steps
Pages == {"Analyze IFC File", "Compare IFC Files", "Detailed Object Data"}

\* step s was executed in the run
Executed(s) == StepIn(steps, s)

\* how often step s was executed in the run
TimesExecuted(s) == Cardinality({i \in DOMAIN steps : steps[i] = s})

\* the steps that work on an opened model
DownstreamSteps ==
    {"display_metadata", "st.write project[0]", "count_building_components",
     "visualize_component_count", "detailed_analysis_ui",
     "ifc_metadata project[0]", "st.button Export", "export_analysis_to_pdf",
     "compare_ifc_files", "st.plotly_chart", "get_objects_data_by_class",
     "st.write dataframe", "st.download_button", "display_window_data"}

\* C13: when a file that was opened cannot be parsed, the error is shown, no
\* step downstream of the open is executed in that run for that file (nor a
\* step on both files of a comparison), and the open was attempted once.
C13_UnreadableHaltsDownstream ==
    call \in Pages =>
        \A k \in DOMAIN uploads.files :
            (/\ uploads.files[k] # None
             /\ ~Val(uploads.files[k]).parses
             /\ Executed(Step("ifcopenshell.open", k))) =>
                /\ Executed(Step("st.error", k))
                /\ TimesExecuted(Step("ifcopenshell.open", k)) = 1
                /\ \A name \in DownstreamSteps :
                       ~Executed(Step(name, k)) /\ ~Executed(Step(name, 0))

\* a comparison whose first file cannot be parsed and whose second can
C13_Witness ==
    /\ call = "Compare IFC Files"
    /\ uploads.files[1] # None /\ ~Val(uploads.files[1]).parses
    /\ uploads.files[2] # None /\ Val(uploads.files[2]).parses
    /\ Val(uploads.files[2]).products # <<>>
    /\ Executed(Step("st.error", 1))
    /\ ~Executed(Step("st.error", 2))
    /\ Executed(Step("ifcopenshell.open", 2))
    /\ ~Executed(Step("compare_ifc_files", 0))

\* C14: on a model without IfcProject, or with several, the analysis page
\* still counts the components (the count is that of the model's products),
\* draws the chart, runs the detailed analysis, offers the export and removes
\* its file, and it shows no metadata taken from one project picked silently.
C14_ProjectFaultOnlyFatalForMetadata ==
    (/\ call = "Analyze IFC File"
     /\ uploads.files[1] # None
     /\ Val(uploads.files[1]).parses
     /\ Val(uploads.files[1]).projects # 1) =>
        /\ Executed(Step("count_building_components", 1))
        /\ component_count = count_building_components(Val(uploads.files[1]).products)
        /\ Executed(Step("visualize_component_count", 1))
        /\ Executed(Step("detailed_analysis_ui", 1))
        /\ Executed(Step("st.button Export", 1))
        /\ Executed(Step("os.remove", 1))
        /\ exception = None
        /\ ~Executed(Step("st.write project[0]", 1))
        /\ ~Executed(Step("ifc_metadata project[0]", 1))

\* C16: when the run of a page ends, every temporary file handle_file_upload
\* wrote in that run has been removed, whether the files parsed or not, one
\* or both comparison files were uploaded, or an exception ended the analysis.
C16_TemporaryFilesRemoved ==
    call \in Pages => tmp_files = {}

\* C12: a malformed or sparse element never aborts a batch: the object table
\* has a row for every element of the class and the window table a record
\* for every window, whatever one of them raised or lacked.
C12_ElementNeverAbortsBatch ==
    /\ call = "get_objects_data_by_class" =>
           /\ Len(objects_data) = Len(objects)
           /\ Len(pandas_data) = Len(objects)
    /\ call = "display_window_data" => Len(windows_df) = Len(windows)

\* the whole application: any of the runs above
Next == NextCompare \/ NextFlatten \/ NextWindow \/ NextBatch \/ NextRun

Spec == Init /\ [][Next]_vars

HasRefDirection(w) ==
    /\ w.ObjectPlacement # None
    /\ Val(w.ObjectPlacement).RelativePlacement # None
    /\ Val(Val(w.ObjectPlacement).RelativePlacement).RefDirection # None
RefDirection(w) ==
    Val(Val(Val(w.ObjectPlacement).RelativePlacement).RefDirection).DirectionRatios

\* C9: the azimuth is a number a with 0 <= a < 360 for every window that has
\* a reference direction, and is None exactly when the window has none.
C9_AzimuthInHalfOpenRange ==
    call = "get_window_orientation" =>
        IF HasRefDirection(window)
        THEN /\ orientation_data.Azimuth # None
             /\ Sign(Val(orientation_data.Azimuth)) >= 0
             /\ Below360(Val(orientation_data.Azimuth))
        ELSE orientation_data.Azimuth = None

\* C10: the label follows the raw signs in the order East (dx > 0), West
\* (dx < 0), North (dy > 0), South, whatever the azimuth: (1, 0) is East at
\* 0, (0, -1) is South at 270 and (1, 1) is East at 45.
C10_OrientationFromSigns ==
    (call = "get_window_orientation" /\ HasRefDirection(window)) =>
        LET dx == RefDirection(window)[1]
            dy == RefDirection(window)[2]
            az == orientation_data.Azimuth
        IN  /\ orientation_data.Orientation =
                   (IF Sign(dx) > 0 THEN "East"
                    ELSE IF Sign(dx) < 0 THEN "West"
                    ELSE IF Sign(dy) > 0 THEN "North" ELSE "South")
            /\ (dx = Float(1, 0) /\ dy = Float(0, 0)) =>
                   (orientation_data.Orientation = "East" /\ az = Some(Float(0, 0)))
            /\ (dx = Float(0, 0) /\ dy = Float(-1, 0)) =>
                   (orientation_data.Orientation = "South" /\ az = Some(Float(270, 0)))
            /\ (dx = Float(1, 0) /\ dy = Float(1, 0)) =>
                   (orientation_data.Orientation = "East" /\ az = Some(Float(45, 0)))

\* the diagonal (1, 1): East by the signs at an azimuth of 45
C10_Witness ==
    /\ call = "get_window_orientation"
    /\ HasRefDirection(window)
    /\ RefDirection(window) = <<Float(1, 0), Float(1, 0)>>
    /\ orientation_data = [Orientation |-> "East", Azimuth |-> Some(Float(45, 0))]

====
